---- MODULE Spec2Model ----
(***************************************************************************)
(* A model of the CHIP-8 interpreter of src/src/emulator.rs: the Emulator  *)
(* struct, the fetch-decode-execute cycle, the instruction semantics, and  *)
(* the scheduler loop of emulate() (timer ticks, keyboard events, the      *)
(* instruction cycle followed by the conditional redraw).                  *)
(*                                                                         *)
(* A panic of the Rust code ends the process; the model records it in      *)
(* `status` and no action is enabled afterwards.  An Option<u8> is the set *)
(* {} (None) or {k} (Some(k)).  The two big arrays are kept sparse: memory  *)
(* is a function on the addresses that hold a nonzero byte (MemRead gives  *)
(* 0 elsewhere), the display buffer is the set of <<row, column>> whose     *)
(* pixel is true; the bounds checks of the arrays are explicit.            *)
(***************************************************************************)
EXTENDS Integers, Sequences, FiniteSets, TLC

VARIABLES
    memory,           \* Emulator.memory: [u8; 4096], the nonzero bytes
    buffer,           \* Emulator.display.buffer: [[bool; 64]; 32], the true pixels
    draw,             \* Emulator.display.draw
    program_counter,  \* Emulator.program_counter: u16
    index_register,   \* Emulator.index_register: u16
    stack,            \* Emulator.stack: Vec<u16>
    delay_timer,      \* Emulator.delay_timer: u8
    sound_timer,      \* Emulator.sound_timer: u8
    registers,        \* Emulator.registers: [u8; 16], indexed 0..15
    pressed,          \* Emulator.controller.pressed: Option<u8>
    released,         \* Emulator.controller.released: Option<u8>
    status,           \* "running", "quit", or the panic that ended the process
    loc,              \* position in the loop of emulate(): "loop" or "render"
    canvas,           \* what the renderer last presented (set of lit <<row, col>>)
    held,             \* environment: the logical keys physically down
    callsites,        \* history: fetch addresses of the calls not yet returned from
    hist,             \* history: snapshots taken before the last two instructions
    latest,           \* history: the key of the most recent key-down event
    parsed            \* the last result of ParsedInstruction::parse, <<>> before any

vars == <<memory, buffer, draw, program_counter, index_register, stack,
          delay_timer, sound_timer, registers, pressed, released, status,
          loc, canvas, held, callsites, hist, latest, parsed>>

----------------------------------------------------------------------------
(* Bounds of the model.                                                    *)

\* Calls are explored up to this depth (Vec<u16> itself has no limit).
MaxDepth == 17
\* The environment presses and releases the logical keys 0..MaxKey.
MaxKey == 1

----------------------------------------------------------------------------
(* Program constants.                                                      *)

MemorySize == 4096
ProgramStart == 512
DisplayWidth == 64
DisplayHeight == 32
\* font.rs is not among the source files; the spec gives the offset and size.
FONT_OFFSET == 80
FONT ==
    << 240, 144, 144, 144, 240,    32,  96,  32,  32, 112,
       240,  16, 240, 128, 240,   240,  16, 240,  16, 240,
       144, 144, 240,  16,  16,   240, 128, 240,  16, 240,
       240, 128, 240, 144, 240,   240,  16,  32,  64,  64,
       240, 144, 240, 144, 240,   240, 144, 240,  16, 240,
       240, 144, 240, 144, 144,   224, 144, 224, 144, 224,
       240, 128, 128, 128, 240,   224, 144, 144, 144, 224,
       240, 128, 240, 128, 240,   240, 128, 240, 128, 128 >>

----------------------------------------------------------------------------
(* Bit arithmetic on bytes.                                                *)

Pow2(i) == 2 ^ i
Bit(v, i) == (v \div Pow2(i)) % 2

RECURSIVE Bitwise(_, _, _, _)
\* table[p + 1][q + 1] is the result bit for operand bits p, q
Bitwise(table, a, b, i) ==
    IF i = 8 THEN 0
    ELSE table[Bit(a, i) + 1][Bit(b, i) + 1] * Pow2(i) + Bitwise(table, a, b, i + 1)

BitOr(a, b) == Bitwise(<<<<0, 1>>, <<1, 1>>>>, a, b, 0)
BitAnd(a, b) == Bitwise(<<<<0, 0>>, <<0, 1>>>>, a, b, 0)
BitXor(a, b) == Bitwise(<<<<0, 1>>, <<1, 0>>>>, a, b, 0)

----------------------------------------------------------------------------
(* Instruction::new: the operand fields of a raw 16-bit word.  A mask with *)
(* a run of low bits is a remainder, a mask and shift of a nibble is a     *)
(* quotient and remainder.                                                 *)

Instruction(raw_instruction) ==
    [ raw_instruction |-> raw_instruction,
      first_opcode    |-> (raw_instruction \div 4096) * 4096,
      x               |-> (raw_instruction \div 256) % 16,
      y               |-> (raw_instruction \div 16) % 16,
      n               |-> raw_instruction % 16,
      nn              |-> raw_instruction % 256,
      nnn             |-> raw_instruction % 4096 ]

----------------------------------------------------------------------------
(* The machine as one record, so that an instruction is a function from    *)
(* machine to machine.                                                     *)

Machine ==
    [ memory          |-> memory,
      buffer          |-> buffer,
      draw            |-> draw,
      program_counter |-> program_counter,
      index_register  |-> index_register,
      stack           |-> stack,
      delay_timer     |-> delay_timer,
      sound_timer     |-> sound_timer,
      registers       |-> registers,
      pressed         |-> pressed,
      released        |-> released,
      status          |-> status ]

\* panic!, expect, unwrap on None, an index out of bounds: the process ends.
Panic(m, kind) == [m EXCEPT !.status = kind]

\* memory[a], for a within the array
MemRead(mem, a) == IF a \in DOMAIN mem THEN mem[a] ELSE 0

\* memory[a] = v, for a within the array
MemWrite(mem, a, v) ==
    IF v = 0
    THEN [b \in DOMAIN mem \ {a} |-> mem[b]]
    ELSE [b \in DOMAIN mem \cup {a} |-> IF b = a THEN v ELSE mem[b]]

\* a clear that does not mark the display changed
ClearUnmarked(m) == [m EXCEPT !.buffer = {}]

\* Display::clear
Clear(m) == [m EXCEPT !.buffer = {}, !.draw = TRUE]

\* (mutation of Return: an empty stack pops a default instead of panicking)
ReturnDefaultsOnEmpty(m) ==
    IF m.stack = <<>>
    THEN [m EXCEPT !.program_counter = 0]
    ELSE [m EXCEPT !.program_counter = m.stack[Len(m.stack)],
                   !.stack = SubSeq(m.stack, 1, Len(m.stack) - 1)]

\* 0x00EE: program_counter = stack.pop().expect(..)
Return(m) ==
    IF m.stack = <<>>
    THEN Panic(m, "StackUnderflow")
    ELSE [m EXCEPT !.program_counter = m.stack[Len(m.stack)],
                   !.stack = SubSeq(m.stack, 1, Len(m.stack) - 1)]

\* 0x1nnn
Jump(m, ins) == [m EXCEPT !.program_counter = ins.nnn]

\* (mutation of Call: the address of the call itself is pushed)
CallPushesOwnAddress(m, ins) ==
    [m EXCEPT !.stack = Append(m.stack, m.program_counter - 2),
              !.program_counter = ins.nnn]

\* 0x2nnn: stack.push(program_counter); program_counter = nnn
Call(m, ins) ==
    [m EXCEPT !.stack = Append(m.stack, m.program_counter),
              !.program_counter = ins.nnn]

\* the skips 0x3xnn, 0x4xnn, 0x5xy_, 0x9xy_: program_counter += 2 when cond
SkipIf(m, cond) ==
    IF cond THEN [m EXCEPT !.program_counter = m.program_counter + 2] ELSE m

\* 0x6xnn
SetRegister(m, ins) == [m EXCEPT !.registers[ins.x] = ins.nn]

\* 0x7xnn: wrapping_add
AddToRegister(m, ins) ==
    [m EXCEPT !.registers[ins.x] = (m.registers[ins.x] + ins.nn) % 256]

\* 0x8xyn: the pair (result, f_register) of the inner match; f_register is an
\* Option, and n outside the nine cases panics.
AluPair(result, f_register) ==
    [result |-> result, f_register |-> f_register, panic |-> FALSE]

AluResult(n, x_register, y_register) ==
    CASE n = 0 -> AluPair(y_register, {})
      [] n = 1 -> AluPair(BitOr(x_register, y_register), {})
      [] n = 2 -> AluPair(BitAnd(x_register, y_register), {})
      [] n = 3 -> AluPair(BitXor(x_register, y_register), {})
      [] n = 4 -> AluPair((x_register + y_register) % 256,
                          IF x_register + y_register > 255 THEN {1} ELSE {0})
      [] n = 5 -> AluPair((x_register - y_register + 256) % 256,
                          IF x_register < y_register THEN {0} ELSE {1})
      [] n = 6 -> AluPair(x_register \div 2,
                          IF BitAnd(x_register, 1) = 1 THEN {1} ELSE {0})
      [] n = 7 -> AluPair((y_register - x_register + 256) % 256,
                          IF y_register < x_register THEN {0} ELSE {1})
      [] n = 14 -> AluPair((x_register * 2) % 256,
                           IF BitAnd(x_register, Pow2(7)) # 0 THEN {1} ELSE {0})
      [] OTHER -> [result |-> 0, f_register |-> {}, panic |-> TRUE]

\* (mutation of AluWrite: the flag is written before the result)
AluWriteFlagFirst(regs, x, r) ==
    LET withFlag == IF r.f_register = {} THEN regs
                    ELSE [regs EXCEPT ![15] = CHOOSE f \in r.f_register : TRUE]
    IN  [withFlag EXCEPT ![x] = r.result]

\* registers[x] = result; if let Some(f) = f_register { registers[0xF] = f }
AluWrite(regs, x, r) ==
    LET withResult == [regs EXCEPT ![x] = r.result]
    IN  IF r.f_register = {} THEN withResult
        ELSE [withResult EXCEPT ![15] = CHOOSE f \in r.f_register : TRUE]

Alu(m, ins) ==
    LET r == AluResult(ins.n, m.registers[ins.x], m.registers[ins.y])
    IN  IF r.panic
        THEN Panic(m, "InvalidOpcode")
        ELSE [m EXCEPT !.registers = AluWrite(m.registers, ins.x, r)]

\* 0xAnnn
SetIndexRegister(m, ins) == [m EXCEPT !.index_register = ins.nnn]

\* 0xBnnn
JumpWithOffset(m, ins) ==
    [m EXCEPT !.program_counter = ins.nnn + m.registers[0]]

\* 0xCxnn: rnd is the byte the generator returned
RandomNumber(m, ins, rnd) == [m EXCEPT !.registers[ins.x] = BitAnd(rnd, ins.nn)]

----------------------------------------------------------------------------
(* execute_draw_instruction                                                *)

\* if draw_y_pos >= 32 { break }
RowClipped(draw_y_pos) == draw_y_pos >= DisplayHeight

\* (mutation of ColumnClipped: the right edge is not checked)
ColumnNeverClipped(draw_x_pos) == FALSE

\* if draw_x_pos >= 64 { break }
ColumnClipped(draw_x_pos) == draw_x_pos >= DisplayWidth

\* (mutation of ResetCollision: VF keeps its value)
CollisionNotReset(regs) == regs

\* registers[0xF] = 0, before the rows are drawn
ResetCollision(regs) == [regs EXCEPT ![15] = 0]

\* (mutation of PlotPixel: the pixel is set instead of toggled)
PlotPixelSets(m, draw_y_pos, draw_x_pos) ==
    IF draw_y_pos \notin 0..(DisplayHeight - 1)
       \/ draw_x_pos \notin 0..(DisplayWidth - 1)
    THEN Panic(m, "IndexOutOfBounds")
    ELSE LET pixel == <<draw_y_pos, draw_x_pos>>
         IN  [m EXCEPT !.registers[15] = IF pixel \in m.buffer THEN 1 ELSE @,
                       !.buffer = @ \cup {pixel},
                       !.draw = TRUE]

\* the body of the inner loop for a set sprite bit: a collision sets VF, the
\* pixel is toggled and the display is marked changed.  An index outside the
\* arrays is a panic of the bounds check.
PlotPixel(m, draw_y_pos, draw_x_pos) ==
    IF draw_y_pos \notin 0..(DisplayHeight - 1)
       \/ draw_x_pos \notin 0..(DisplayWidth - 1)
    THEN Panic(m, "IndexOutOfBounds")
    ELSE LET pixel == <<draw_y_pos, draw_x_pos>>
         IN  [m EXCEPT !.registers[15] = IF pixel \in m.buffer THEN 1 ELSE @,
                       !.buffer = IF pixel \in @ THEN @ \ {pixel}
                                                 ELSE @ \cup {pixel},
                       !.draw = TRUE]

RECURSIVE DrawBits(_, _, _, _, _)
\* for i in 0..8 over one sprite byte
DrawBits(m, byte, draw_y_pos, x_pos, i) ==
    IF i = 8 \/ m.status # "running" THEN m
    ELSE IF BitAnd(byte \div Pow2(7 - i), 1) = 0
         THEN DrawBits(m, byte, draw_y_pos, x_pos, i + 1)
         ELSE IF ColumnClipped(x_pos + i) THEN m
              ELSE DrawBits(PlotPixel(m, draw_y_pos, x_pos + i),
                            byte, draw_y_pos, x_pos, i + 1)

RECURSIVE DrawRows(_, _, _, _, _)
\* for (pos, &byte) in bytes.iter().enumerate()
DrawRows(m, bytes, y_pos, x_pos, pos) ==
    IF pos = Len(bytes) \/ m.status # "running" THEN m
    ELSE IF RowClipped(y_pos + pos) THEN m
         ELSE DrawRows(DrawBits(m, bytes[pos + 1], y_pos + pos, x_pos, 0),
                       bytes, y_pos, x_pos, pos + 1)

\* a draw that resets VF before it looks for the sprite bytes
DrawResetsFirst(m, ins) ==
    LET x_pos == m.registers[ins.x] % 64
        y_pos == m.registers[ins.y] % 32
        start == m.index_register
        end   == start + ins.n
        reset == [m EXCEPT !.registers = ResetCollision(m.registers)]
    IN  IF end > MemorySize
        THEN Panic(reset, "MemoryFault")
        ELSE LET bytes == [k \in 1..ins.n |-> MemRead(m.memory, start + k - 1)]
             IN  DrawRows(reset, bytes, y_pos, x_pos, 0)

Draw(m, ins) ==
    LET x_pos == m.registers[ins.x] % 64
        y_pos == m.registers[ins.y] % 32
        start == m.index_register
        end   == start + ins.n
    IN  IF end > MemorySize
        THEN Panic(m, "MemoryFault")
        ELSE LET bytes == [k \in 1..ins.n |-> MemRead(m.memory, start + k - 1)]
             IN  DrawRows([m EXCEPT !.registers = ResetCollision(m.registers)],
                          bytes, y_pos, x_pos, 0)

----------------------------------------------------------------------------
(* The keyboard and 0xF groups.                                            *)

\* 0xEx9E / 0xExA1: the whole arm is inside `if let Some(key) = pressed`
KeySkip(m, ins) ==
    IF m.pressed = {} THEN m
    ELSE LET key == CHOOSE k \in m.pressed : TRUE
         IN  CASE ins.nn = 158 -> SkipIf(m, key = m.registers[ins.x])
               [] ins.nn = 161 -> SkipIf(m, key # m.registers[ins.x])
               [] OTHER -> Panic(m, "InvalidOpcode")

\* an addition to the index register that keeps the 16-bit sum
AddToIndexRegisterUnreduced(m, ins) ==
    LET sum      == m.index_register + m.registers[ins.x]
        result   == sum % 65536
        overflow == sum > 65535
        flagged  == IF overflow \/ result > 4095
                    THEN [m.registers EXCEPT ![15] = 1]
                    ELSE m.registers
    IN  [m EXCEPT !.registers = flagged, !.index_register = result]

\* 0xFx1E: overflowing_add on u16, the flag, then `result % 0x0FFF`
AddToIndexRegister(m, ins) ==
    LET sum      == m.index_register + m.registers[ins.x]
        result   == sum % 65536
        overflow == sum > 65535
        flagged  == IF overflow \/ result > 4095
                    THEN [m.registers EXCEPT ![15] = 1]
                    ELSE m.registers
    IN  [m EXCEPT !.registers = flagged, !.index_register = result % 4095]

\* (mutation of WaitForKeyPress: the program counter is not moved back)
WaitFallsThrough(m, ins) ==
    IF m.pressed # {}
    THEN [m EXCEPT !.registers[ins.x] = CHOOSE k \in m.pressed : TRUE]
    ELSE m

\* 0xFx0A
WaitForKeyPress(m, ins) ==
    IF m.pressed # {}
    THEN [m EXCEPT !.registers[ins.x] = CHOOSE k \in m.pressed : TRUE]
    ELSE [m EXCEPT !.program_counter = m.program_counter - 2]

\* 0xFx29: (FONT_OFFSET as u8 + (registers[x] & 0x0F)).into()
SetIndexRegisterToFontCharacter(m, ins) ==
    [m EXCEPT !.index_register =
                  (FONT_OFFSET % 256) + BitAnd(m.registers[ins.x], 15)]

RECURSIVE DecimalDigitsForward(_, _, _)
\* a decimal conversion that writes the ones digit at I and the hundreds at I+2
DecimalDigitsForward(m, x_register, k) ==
    IF k = 3 THEN m
    ELSE LET addr == m.index_register + k
         IN  IF addr >= MemorySize
             THEN Panic(m, "MemoryFault")
             ELSE DecimalDigitsForward([m EXCEPT !.memory =
                                           MemWrite(@, addr, x_register % 10)],
                                       x_register \div 10, k + 1)

RECURSIVE DecimalDigits(_, _, _)
\* 0xFx33: for i in (0..=2).rev() { memory[I + i] = x % 10; x /= 10 }
\* k counts the iterations done; i = 2 - k.
DecimalDigits(m, x_register, k) ==
    IF k = 3 THEN m
    ELSE LET addr == m.index_register + (2 - k)
         IN  IF addr >= MemorySize
             THEN Panic(m, "MemoryFault")
             ELSE DecimalDigits([m EXCEPT !.memory =
                                       MemWrite(@, addr, x_register % 10)],
                                x_register \div 10, k + 1)

ConvertToDecimal(m, ins) == DecimalDigits(m, m.registers[ins.x], 0)

RECURSIVE WriteToMemoryExclusive(_, _, _)
\* a block store over the exclusive range 0..x-1
WriteToMemoryExclusive(m, x, i) ==
    IF i >= x THEN m
    ELSE IF m.index_register + i >= MemorySize
         THEN Panic(m, "MemoryFault")
         ELSE WriteToMemoryExclusive(
                  [m EXCEPT !.memory =
                      MemWrite(@, m.index_register + i, m.registers[i])],
                  x, i + 1)

RECURSIVE WriteToMemory(_, _, _)
\* 0xFx55: for i in 0..=x { memory[I + i] = registers[i] }
WriteToMemory(m, x, i) ==
    IF i > x THEN m
    ELSE IF m.index_register + i >= MemorySize
         THEN Panic(m, "MemoryFault")
         ELSE WriteToMemory(
                  [m EXCEPT !.memory =
                      MemWrite(@, m.index_register + i, m.registers[i])],
                  x, i + 1)

RECURSIVE ReadFromMemory(_, _, _)
\* 0xFx65: for i in 0..=x { registers[i] = memory[I + i] }
ReadFromMemory(m, x, i) ==
    IF i > x THEN m
    ELSE IF m.index_register + i >= MemorySize
         THEN Panic(m, "MemoryFault")
         ELSE ReadFromMemory(
                  [m EXCEPT !.registers[i] =
                      MemRead(m.memory, m.index_register + i)],
                  x, i + 1)

TimersAndMemory(m, ins) ==
    CASE ins.nn = 7   -> [m EXCEPT !.registers[ins.x] = m.delay_timer]
      [] ins.nn = 21  -> [m EXCEPT !.delay_timer = m.registers[ins.x]]
      [] ins.nn = 24  -> [m EXCEPT !.sound_timer = m.registers[ins.x]]
      [] ins.nn = 30  -> AddToIndexRegister(m, ins)
      [] ins.nn = 10  -> WaitForKeyPress(m, ins)
      [] ins.nn = 41  -> SetIndexRegisterToFontCharacter(m, ins)
      [] ins.nn = 51  -> ConvertToDecimal(m, ins)
      [] ins.nn = 85  -> WriteToMemory(m, ins.x, 0)
      [] ins.nn = 101 -> ReadFromMemory(m, ins.x, 0)
      [] OTHER -> Panic(m, "InvalidOpcode")

----------------------------------------------------------------------------
(* execute_instruction and perform_fde_cycle                               *)

Dispatch(m, ins, rnd) ==
    CASE ins.raw_instruction = 224 -> Clear(m)
      [] ins.raw_instruction = 238 -> Return(m)
      [] OTHER ->
         CASE ins.first_opcode = 4096  -> Jump(m, ins)
           [] ins.first_opcode = 8192  -> Call(m, ins)
           [] ins.first_opcode = 12288 -> SkipIf(m, m.registers[ins.x] = ins.nn)
           [] ins.first_opcode = 16384 -> SkipIf(m, m.registers[ins.x] # ins.nn)
           [] ins.first_opcode = 20480 ->
                  SkipIf(m, m.registers[ins.x] = m.registers[ins.y])
           [] ins.first_opcode = 24576 -> SetRegister(m, ins)
           [] ins.first_opcode = 28672 -> AddToRegister(m, ins)
           [] ins.first_opcode = 32768 -> Alu(m, ins)
           [] ins.first_opcode = 36864 ->
                  SkipIf(m, m.registers[ins.x] # m.registers[ins.y])
           [] ins.first_opcode = 40960 -> SetIndexRegister(m, ins)
           [] ins.first_opcode = 45056 -> JumpWithOffset(m, ins)
           [] ins.first_opcode = 49152 -> RandomNumber(m, ins, rnd)
           [] ins.first_opcode = 53248 -> Draw(m, ins)
           [] ins.first_opcode = 57344 -> KeySkip(m, ins)
           [] ins.first_opcode = 61440 -> TimersAndMemory(m, ins)
           [] OTHER -> Panic(m, "InvalidOpcode")

\* the match, then "cleaning up the released buffer" unless the match panicked
execute_instruction(m, ins, rnd) ==
    LET after == Dispatch(m, ins, rnd)
    IN  IF after.status = "running" THEN [after EXCEPT !.released = {}] ELSE after

\* the two memory.get(..).unwrap() of the fetch
FetchFaults(m) == m.program_counter + 1 >= MemorySize

Fetch(m) ==
    MemRead(m.memory, m.program_counter) * 256
        + MemRead(m.memory, m.program_counter + 1)

perform_fde_cycle(m, rnd) ==
    IF FetchFaults(m)
    THEN Panic(m, "MemoryFault")
    ELSE execute_instruction(
             [m EXCEPT !.program_counter = m.program_counter + 2],
             Instruction(Fetch(m)), rnd)

----------------------------------------------------------------------------
(* decoder.rs: ParsedInstruction::parse                                    *)

\* a match that looks at the first nibble alone: no exact match on 0x00E0 and
\* 0x00EE, and the first arm of each secondary match taken for the group
match_first_nibble_only(raw_instruction) ==
    LET first_nibble == raw_instruction \div 4096
    IN  CASE first_nibble = 1  -> "SetProgramCounter"
          [] first_nibble = 2  -> "PushStackSetProgramCounter"
          [] first_nibble = 3  -> "SkipIfEqualImmediate"
          [] first_nibble = 4  -> "SkipIfNotEqualImmediate"
          [] first_nibble = 5  -> "SkipIfEqualRegister"
          [] first_nibble = 6  -> "SetRegister"
          [] first_nibble = 7  -> "AddToRegister"
          [] first_nibble = 8  -> "CopyFromRegisterToRegister"
          [] first_nibble = 9  -> "SkipIfNotEqualRegister"
          [] first_nibble = 10 -> "SetIndexRegister"
          [] first_nibble = 11 -> "SetProgramCounterOffset"
          [] first_nibble = 12 -> "RandomNumber"
          [] first_nibble = 13 -> "Draw"
          [] first_nibble = 14 -> "KeyDown"
          [] first_nibble = 15 -> "CopyDelayTimer"
          [] OTHER -> "panic"

\* `let instruction = match raw_instruction { .. }`: the tag, or "panic"
match_instruction(raw_instruction) ==
    LET first_nibble == raw_instruction \div 4096
        n            == raw_instruction % 16
        nn           == raw_instruction % 256
    IN  CASE raw_instruction = 224 -> "Clear"
          [] raw_instruction = 238 -> "PopStack"
          [] OTHER ->
             CASE first_nibble = 1 -> "SetProgramCounter"
               [] first_nibble = 2 -> "PushStackSetProgramCounter"
               [] first_nibble = 3 -> "SkipIfEqualImmediate"
               [] first_nibble = 4 -> "SkipIfNotEqualImmediate"
               [] first_nibble = 5 -> "SkipIfEqualRegister"
               [] first_nibble = 6 -> "SetRegister"
               [] first_nibble = 7 -> "AddToRegister"
               [] first_nibble = 8 ->
                      CASE n = 0  -> "CopyFromRegisterToRegister"
                        [] n = 1  -> "LogicalOr"
                        [] n = 2  -> "LogicalAnd"
                        [] n = 3  -> "LogicalXor"
                        [] n = 4  -> "Addition"
                        [] n = 5  -> "Subtraction"
                        [] n = 6  -> "RightShift"
                        [] n = 7  -> "FlippedSubtraction"
                        [] n = 14 -> "LeftShift"
                        [] OTHER  -> "panic"
               [] first_nibble = 9  -> "SkipIfNotEqualRegister"
               [] first_nibble = 10 -> "SetIndexRegister"
               [] first_nibble = 11 -> "SetProgramCounterOffset"
               [] first_nibble = 12 -> "RandomNumber"
               [] first_nibble = 13 -> "Draw"
               [] first_nibble = 14 ->
                      CASE nn = 158 -> "KeyDown"
                        [] nn = 161 -> "KeyNotDown"
                        [] OTHER    -> "panic"
               [] first_nibble = 15 ->
                      CASE nn = 7   -> "CopyDelayTimer"
                        [] nn = 10  -> "WaitForKeyPress"
                        [] nn = 21  -> "SetDelayTimer"
                        [] nn = 24  -> "SetSoundTimer"
                        [] nn = 30  -> "AddToIndexRegister"
                        [] nn = 41  -> "SetIndexRegisterToFontCharacter"
                        [] nn = 51  -> "ConvertToDecimal"
                        [] nn = 85  -> "WriteToMemory"
                        [] nn = 101 -> "ReadFromMemory"
                        [] OTHER    -> "panic"
               [] OTHER -> "panic"

\* ParsedInstruction::parse: the struct it returns, or nothing when it panics
parse(raw_instruction) ==
    LET instruction == match_instruction(raw_instruction)
    IN  IF instruction = "panic"
        THEN {}
        ELSE {[raw_instruction |-> raw_instruction,
               instruction     |-> instruction,
               x               |-> (raw_instruction % 4096) \div 256,
               y               |-> (raw_instruction % 256) \div 16,
               n               |-> raw_instruction % 16,
               nn              |-> raw_instruction % 256,
               nnn             |-> raw_instruction % 4096]}

----------------------------------------------------------------------------
(* Emulator::new and the loop of emulate()                                 *)

\* Emulator::new(program): font and program copied into zeroed memory
NewMemory(program) ==
    LET byte(a) ==
            IF a >= ProgramStart /\ a < ProgramStart + Len(program)
            THEN program[a - ProgramStart + 1]
            ELSE IF a >= FONT_OFFSET /\ a < FONT_OFFSET + Len(FONT)
                 THEN FONT[a - FONT_OFFSET + 1]
                 ELSE 0
        copied == (FONT_OFFSET..(FONT_OFFSET + Len(FONT) - 1))
                      \cup (ProgramStart..(ProgramStart + Len(program) - 1))
    IN  [a \in {b \in copied : byte(b) # 0} |-> byte(a)]

InitWith(programs) ==
    /\ \E program \in programs : memory = NewMemory(program)
    /\ buffer = {}
    /\ draw = FALSE
    /\ program_counter = ProgramStart
    /\ index_register = 0
    /\ stack = <<>>
    /\ delay_timer = 0
    /\ sound_timer = 0
    /\ registers = [i \in 0..15 |-> 0]
    /\ pressed = {}
    /\ released = {}
    /\ status = "running"
    /\ loc = "loop"
    /\ canvas = {}
    /\ held = {}
    /\ callsites = <<>>
    /\ hist = <<>>
    /\ latest = {}
    /\ parsed = <<>>

\* the machine state an instruction is about to run in, kept for the properties
Snapshot ==
    [ raw            |-> IF FetchFaults(Machine) THEN -1 ELSE Fetch(Machine),
      at             |-> program_counter,
      memory         |-> memory,
      registers      |-> registers,
      index_register |-> index_register,
      stack          |-> stack,
      buffer         |-> buffer,
      draw           |-> draw,
      delay_timer    |-> delay_timer,
      sound_timer    |-> sound_timer,
      pressed        |-> pressed,
      held           |-> held,
      callsites      |-> callsites ]

\* what the second snapshot keeps: the machine, not the keyboard
Older(snap) == [snap EXCEPT !.pressed = {}, !.held = {}]

\* the bytes the random generator may return (a sample of the 256)
RandomBytes == {0, 85, 255}

RandomSource(raw) ==
    IF raw >= 49152 /\ raw < 53248 THEN RandomBytes ELSE {0}

IsCall(raw) == raw >= 8192 /\ raw < 12288
IsReturn(raw) == raw = 238

\* `if last_instruction_time.elapsed() >= ..` : one perform_fde_cycle
Cycle ==
    /\ status = "running"
    /\ loc = "loop"
    /\ \E snap \in {Snapshot} :
           /\ ~(IsCall(snap.raw) /\ Len(stack) >= MaxDepth)
           /\ \E rnd \in RandomSource(snap.raw) :
               \E after \in {perform_fde_cycle(Machine, rnd)} :
                     /\ memory' = after.memory
                     /\ buffer' = after.buffer
                     /\ draw' = after.draw
                     /\ program_counter' = after.program_counter
                     /\ index_register' = after.index_register
                     /\ stack' = after.stack
                     /\ delay_timer' = after.delay_timer
                     /\ sound_timer' = after.sound_timer
                     /\ registers' = after.registers
                     /\ pressed' = after.pressed
                     /\ released' = after.released
                     /\ status' = after.status
                     /\ loc' = IF after.status = "running" THEN "render" ELSE loc
                     /\ callsites' =
                           IF after.status # "running" THEN callsites
                           ELSE IF IsCall(snap.raw) THEN Append(callsites, snap.at)
                           ELSE IF IsReturn(snap.raw)
                                THEN SubSeq(callsites, 1, Len(callsites) - 1)
                                ELSE callsites
           /\ hist' = IF hist = <<>> THEN <<snap>> ELSE <<snap, Older(hist[1])>>
    /\ UNCHANGED <<canvas, held, latest, parsed>>

\* "Rerender if necessary": present the buffer and reset the flag
Render ==
    /\ status = "running"
    /\ loc = "render"
    /\ IF draw
       THEN canvas' = buffer /\ draw' = FALSE
       ELSE UNCHANGED <<canvas, draw>>
    /\ loc' = "loop"
    /\ UNCHANGED <<memory, buffer, program_counter, index_register, stack,
                   delay_timer, sound_timer, registers, pressed, released,
                   status, held, callsites, hist, latest, parsed>>

\* a timer update that does not happen while the instruction at the program
\* counter is a wait for a key and no key is latched
TimerTickBlockedByWait ==
    /\ status = "running"
    /\ loc = "loop"
    /\ ~(/\ ~FetchFaults(Machine)
         /\ Fetch(Machine) \div 4096 = 15
         /\ Fetch(Machine) % 256 = 10
         /\ pressed = {})
    /\ delay_timer' = IF delay_timer > 0 THEN delay_timer - 1 ELSE delay_timer
    /\ sound_timer' = IF sound_timer > 0 THEN sound_timer - 1 ELSE sound_timer
    /\ UNCHANGED <<memory, buffer, draw, program_counter, index_register, stack,
                   registers, pressed, released, status, loc, canvas, held,
                   callsites, hist, latest, parsed>>

\* a timer update that decrements a timer at 0 as well, wrapping to 255
TimerTickWraps ==
    /\ status = "running"
    /\ loc = "loop"
    /\ delay_timer' = (delay_timer + 255) % 256
    /\ sound_timer' = (sound_timer + 255) % 256
    /\ UNCHANGED <<memory, buffer, draw, program_counter, index_register, stack,
                   registers, pressed, released, status, loc, canvas, held,
                   callsites, hist, latest, parsed>>

\* `if elapsed >= Duration::from_millis(16)`
TimerTick ==
    /\ status = "running"
    /\ loc = "loop"
    /\ delay_timer' = IF delay_timer > 0 THEN delay_timer - 1 ELSE delay_timer
    /\ sound_timer' = IF sound_timer > 0 THEN sound_timer - 1 ELSE sound_timer
    /\ UNCHANGED <<memory, buffer, draw, program_counter, index_register, stack,
                   registers, pressed, released, status, loc, canvas, held,
                   callsites, hist, latest, parsed>>

Keys == 0..MaxKey

\* Event::KeyDown with a mapped key (a repeat of a key already down included)
KeyDown(k) ==
    /\ status = "running"
    /\ loc = "loop"
    /\ held' = held \cup {k}
    /\ pressed' = IF pressed = {} THEN {k} ELSE pressed
    /\ latest' = {k}
    /\ UNCHANGED <<memory, buffer, draw, program_counter, index_register, stack,
                   delay_timer, sound_timer, registers, released, status, loc,
                   canvas, callsites, hist, parsed>>

\* Event::KeyUp with a mapped key
KeyUp(k) ==
    /\ status = "running"
    /\ loc = "loop"
    /\ k \in held
    /\ held' = held \ {k}
    /\ IF {k} = pressed
       THEN pressed' = {} /\ released' = {k}
       ELSE UNCHANGED <<pressed, released>>
    /\ UNCHANGED <<memory, buffer, draw, program_counter, index_register, stack,
                   delay_timer, sound_timer, registers, status, loc, canvas,
                   callsites, hist, latest, parsed>>

\* Event::KeyUp with a key map_to_hex does not know: hex = None
KeyUpUnmapped ==
    /\ status = "running"
    /\ loc = "loop"
    /\ IF pressed = {}
       THEN pressed' = {} /\ released' = {}
       ELSE UNCHANGED <<pressed, released>>
    /\ UNCHANGED <<memory, buffer, draw, program_counter, index_register, stack,
                   delay_timer, sound_timer, registers, status, loc, canvas, held,
                   callsites, hist, latest, parsed>>

\* Event::Quit or Escape: break 'running
Quit ==
    /\ status = "running"
    /\ loc = "loop"
    /\ status' = "quit"
    /\ UNCHANGED <<memory, buffer, draw, program_counter, index_register, stack,
                   delay_timer, sound_timer, registers, pressed, released, loc,
                   canvas, held, callsites, hist, latest, parsed>>

----------------------------------------------------------------------------
(* Programs the specifications load.                                       *)

\* the words handed to the decoder: every first nibble and every low byte,
\* with three values of the second nibble
DecodedX == {0, 10, 15}

Words == {a * 4096 + x * 256 + nn : a \in 0..15, x \in DecodedX, nn \in 0..255}

\* one call of ParsedInstruction::parse; a panic ends the process
Parse ==
    /\ status = "running"
    /\ parsed = <<>>
    /\ \E raw_instruction \in Words :
          \E result \in {parse(raw_instruction)} :
             /\ parsed' = <<raw_instruction, result>>
             /\ status' = IF result = {} THEN "InvalidOpcode" ELSE status
    /\ UNCHANGED <<memory, buffer, draw, program_counter, index_register, stack,
                   delay_timer, sound_timer, registers, pressed, released, loc,
                   canvas, held, callsites, hist, latest>>

\* the bytes of a sequence of 16-bit words, most significant byte first
Bytes(words) ==
    [i \in 1..(2 * Len(words)) |->
        IF i % 2 = 1 THEN words[(i + 1) \div 2] \div 256
                     ELSE words[i \div 2] % 256]

Op(a, x, y, n) == a * 4096 + x * 256 + y * 16 + n
OpNN(a, x, nn) == a * 4096 + x * 256 + nn
OpNNN(a, nnn)  == a * 4096 + nnn

\* 0x200 call 0x208; 0x202 call 0x20C; 0x204 return (on an empty stack);
\* 0x208 call 0x20C (nested); 0x20A return; 0x20C return
CallProgram ==
    Bytes(<<OpNNN(2, 520), OpNNN(2, 524), 238, 0, OpNNN(2, 524), 238, 238>>)

\* 0x200 call 0x200: unbounded recursion
RecursionProgram == Bytes(<<OpNNN(2, 512)>>)

\* the values V0 holds when a key instruction runs: each key, and a value
\* whose low nibble names key 1 with a nonzero high nibble
KeyOperands == Keys \cup {17}

\* V0 = v; then Ex9E (158) or ExA1 (161) on V0; then 0x1206: jump to itself
KeyPrograms ==
    {Bytes(<<OpNN(6, 0, v), OpNN(14, 0, nn), 0, OpNNN(1, 518)>>) :
        v \in KeyOperands, nn \in {158, 161}}

\* F30A: wait for a key into V3, then a jump to itself
WaitProgram == Bytes(<<OpNN(15, 3, 10), OpNNN(1, 514)>>)

\* 0x200 jump 0x203; 0x202 a zero byte; 0x203 jump 0x203
OddJumpProgram == <<18, 3, 0, 18, 3>>

\* words of no documented shape: 0x0123, 0x8008, 0xE0FF, 0xF0FF
InvalidWords == {291, 32776, 57599, 61695}

\* one such word, then 0x1202: jump to itself
InvalidPrograms == {Bytes(<<w, OpNNN(1, 514)>>) : w \in InvalidWords}

\* V0 = 2; delay = V0; V1 = 1; sound = V1; then 0x1208: jump to itself
TimerProgram ==
    Bytes(<<OpNN(6, 0, 2), OpNN(15, 0, 21), OpNN(6, 1, 1), OpNN(15, 1, 24),
            OpNNN(1, 520)>>)

MainPrograms ==
    {CallProgram, RecursionProgram, WaitProgram, OddJumpProgram, TimerProgram}
        \cup KeyPrograms \cup InvalidPrograms

Init == InitWith(MainPrograms)

Next ==
    \/ Cycle
    \/ Render
    \/ TimerTick
    \/ \E k \in Keys : KeyDown(k)
    \/ \E k \in Keys : KeyUp(k)
    \/ KeyUpUnmapped
    \/ Quit

Spec == Init /\ [][Next]_vars

----------------------------------------------------------------------------
(* Specifications of single instructions: the program loads the operands   *)
(* and runs the instruction; only the instruction cycle and the redraw     *)
(* step, which no keyboard or timer event influences for these             *)
(* instructions.                                                           *)

NextMachine ==
    \/ Cycle
    \/ Render

\* operand bytes around the carries, borrows and shifted-out bits
ByteSamples == {0, 1, 127, 128, 255}
\* register operands: two ordinary registers and VF
RegisterSamples == {0, 1, 15}
\* 8xy4 add, 8xy5 subtract, 8xy6 shift right, 8xy7 reverse subtract, 8xyE shift left
FlagOperations == {4, 5, 6, 7, 14}

\* Vx = a; Vy = b; 8xyn
AluPrograms ==
    {Bytes(<<OpNN(6, x, a), OpNN(6, y, b), Op(8, x, y, n)>>) :
        <<x, y, a, b, n>> \in RegisterSamples \X RegisterSamples \X ByteSamples
                                \X ByteSamples \X FlagOperations}

InitAlu == InitWith(AluPrograms)

SpecAlu == InitAlu /\ [][NextMachine]_vars

\* index values around the top of the 12-bit address space
IndexSamples == {0, 1, 3840, 4000, 4094, 4095}

\* I = nnn; Vx = v; Fx1E
AddToIndexPrograms ==
    {Bytes(<<OpNNN(10, nnn), OpNN(6, x, v), OpNN(15, x, 30)>>) :
        <<nnn, x, v>> \in IndexSamples \X RegisterSamples \X ByteSamples}

InitIndex == InitWith(AddToIndexPrograms)

SpecIndex == InitIndex /\ [][NextMachine]_vars

\* sprite rows: a solid block, and a pattern with clear bits in every row
SolidSprite == [i \in 1..15 |-> 255]
PatternSprite == [i \in 1..15 |-> IF i % 2 = 1 THEN 129 ELSE 90]
SpriteSamples == {SolidSprite, PatternSprite}
\* coordinate register values: the left and top edge, near and on the right
\* and bottom edge, and values the modulo brings back onto the screen
ColumnSamples == {0, 60, 124, 255}
RowSamples == {0, 27, 62, 255}
\* sprite heights, the empty sprite included
HeightSamples == {0, 1, 5, 15}
\* the registers naming the coordinates: ordinary ones, or VF for either
CoordinateRegisters == {<<2, 3>>, <<15, 3>>, <<2, 15>>}
\* the height of the background drawn first at (58, 26): none, or 15 rows
BackgroundHeights == {0, 15}

\* 0x200 I = 0x212; V4 = 58; V5 = 26; D45b draws the background;
\* VF = 9; Vx = sx; Vy = sy; Dxyn twice; then the sprite rows at 0x212
DrawPrograms ==
    {Bytes(<<OpNNN(10, 530), OpNN(6, 4, 58), OpNN(6, 5, 26), Op(13, 4, 5, b),
             OpNN(6, 15, 9), OpNN(6, r[1], sx), OpNN(6, r[2], sy),
             Op(13, r[1], r[2], n), Op(13, r[1], r[2], n)>>) \o sprite :
        <<b, r, sx, sy, n, sprite>> \in
            BackgroundHeights \X CoordinateRegisters \X ColumnSamples
                \X RowSamples \X HeightSamples \X SpriteSamples}

InitDraw == InitWith(DrawPrograms)

SpecDraw == InitDraw /\ [][NextMachine]_vars

\* Fx29 programs: V[x] = d; Fx29; Dxx5; then 0x1206: jump to itself
FontDigits == (0..15) \cup {26, 255}

FontPrograms ==
    {Bytes(<<OpNN(6, x, d), OpNN(15, x, 41), Op(13, x, x, 5), OpNNN(1, 518)>>) :
        x \in RegisterSamples, d \in FontDigits}

InitFont == InitWith(FontPrograms)

SpecFont == InitFont /\ [][NextMachine]_vars

\* I = the font; D005: a glyph on the display; VF = 9; then the instruction
\* that is to fail, after setting what it needs
FaultPrelude == <<OpNNN(10, FONT_OFFSET), Op(13, 0, 0, 5), OpNN(6, 15, 9)>>

\* a draw of n rows from the last addresses of memory
FaultingDraws ==
    {FaultPrelude \o <<OpNNN(10, nnn), Op(13, 0, 0, n)>> :
        nnn \in (MemorySize - 6)..(MemorySize - 1), n \in {1, 7, 15}}

\* a decimal conversion of 234 whose digits do not fit below the end of memory
FaultingDecimals ==
    {FaultPrelude \o <<OpNN(6, 1, 234), OpNNN(10, nnn), OpNN(15, 1, 51)>> :
        nnn \in (MemorySize - 3)..(MemorySize - 1)}

\* a return on an empty stack, and the words of no documented shape
FaultingWords == {FaultPrelude \o <<w>> : w \in {238} \cup InvalidWords}

\* each followed by 0x1200: jump to the start
FaultPrograms ==
    {Bytes(words \o <<OpNNN(1, 512)>>) :
        words \in FaultingDraws \cup FaultingDecimals \cup FaultingWords}

InitFault == InitWith(FaultPrograms)

SpecFault == InitFault /\ [][NextMachine]_vars

\* V0 = 1; delay = V0; sound = V0; F10A: wait for a key into V1; then 0x1208:
\* jump to itself
WaitWithTimersProgram ==
    Bytes(<<OpNN(6, 0, 1), OpNN(15, 0, 21), OpNN(15, 0, 24), OpNN(15, 1, 10),
            OpNNN(1, 520)>>)

InitWait == InitWith({WaitWithTimersProgram})

\* the loop with one key on the keyboard
NextWait ==
    \/ Cycle
    \/ Render
    \/ TimerTick
    \/ KeyDown(MaxKey)
    \/ KeyUp(MaxKey)
    \/ Quit

\* the loop of emulate never stops iterating while the run lasts: an
\* instruction cycle and its render are taken when due, and the 16 ms of the
\* timer update elapse again and again, whatever the instructions do.  Key
\* and quit events are the user's and come or not.
SpecWait ==
    /\ InitWait
    /\ [][NextWait]_vars
    /\ WF_vars(Cycle)
    /\ WF_vars(Render)
    /\ SF_vars(TimerTick)

\* V0 = column; V1 = row; I = a glyph; D015 (pixels toggled); D010 (no rows);
\* I = 0x300, zeroed memory; D015 (rows without a set bit); 00E0; 00E0 (on an
\* empty display); I = the glyph; D015; D015 (the glyph erased); then 0x1200:
\* jump to the start
DisplayPrograms ==
    {Bytes(<<OpNN(6, 0, column), OpNN(6, 1, row), OpNNN(10, glyph),
             Op(13, 0, 1, 5), Op(13, 0, 1, 0), OpNNN(10, 768), Op(13, 0, 1, 5),
             224, 224, OpNNN(10, glyph), Op(13, 0, 1, 5), Op(13, 0, 1, 5),
             OpNNN(1, 512)>>) :
        column \in {0, 61}, row \in {0, 29},
        glyph \in {FONT_OFFSET, FONT_OFFSET + 5}}

InitDisplay == InitWith(DisplayPrograms)

SpecDisplay == InitDisplay /\ [][NextMachine]_vars

\* I = nnn; V0 = v; FX1E on V0, or V1 = 0 to leave I alone; an instruction
\* that uses I (D005, F033, F255, F265) or sets it (F029); then 0x1200
IndexStarts == {MemorySize - 1, MemorySize - 6, MemorySize - 255}

IndexUses ==
    {Op(13, 0, 0, 5), OpNN(15, 0, 51), OpNN(15, 2, 85), OpNN(15, 2, 101),
     OpNN(15, 0, 41)}

AddressPrograms ==
    {Bytes(<<OpNNN(10, nnn), OpNN(6, 0, v), step, use, OpNNN(1, 512)>>) :
        nnn \in IndexStarts, v \in {0, 4, 255},
        step \in {OpNN(15, 0, 30), OpNN(6, 1, 0)}, use \in IndexUses}

InitAddress == InitWith(AddressPrograms)

SpecAddress == InitAddress /\ [][NextMachine]_vars

\* the decoder on its own: no program is run
InitDecode == InitWith({<<>>})

SpecDecode == InitDecode /\ [][Parse]_vars

\* the last register of a block transfer
BlockLast == {0, 1, 2, 15}

\* V0, V1, V2, VF = values; I = nnn; Fx55; Fx65; then 0x120C: jump to itself
StorePrograms ==
    {Bytes(<<OpNN(6, 0, v), OpNN(6, 1, v + 1), OpNN(6, 2, v + 2),
             OpNN(6, 15, v + 3), OpNNN(10, nnn), OpNN(15, x, 85),
             OpNN(15, x, 101), OpNNN(1, 524)>>) :
        v \in {17, 252}, x \in BlockLast,
        nnn \in {768, MemorySize - 16, MemorySize - 3}}

\* V1 = 9; VF = 9; I = the font; Fx65; then 0x1206: jump to itself
LoadPrograms ==
    {Bytes(<<OpNN(6, 1, 9), OpNN(6, 15, 9), OpNNN(10, FONT_OFFSET),
             OpNN(15, x, 101), OpNNN(1, 518)>>) : x \in BlockLast}

InitBlock == InitWith(StorePrograms \cup LoadPrograms)

SpecBlock == InitBlock /\ [][NextMachine]_vars

\* V[x] = v; I = nnn; Fx33; then 0x1206: jump to itself
DecimalSamples == {0, 7, 99, 100, 234, 255}

DecimalPrograms ==
    {Bytes(<<OpNN(6, x, v), OpNNN(10, nnn), OpNN(15, x, 51), OpNNN(1, 518)>>) :
        x \in RegisterSamples, v \in DecimalSamples,
        nnn \in {768, MemorySize - 3}}

InitDecimal == InitWith(DecimalPrograms)

SpecDecimal == InitDecimal /\ [][NextMachine]_vars

----------------------------------------------------------------------------
(* Properties.  `Executed` holds in the state an instruction cycle leaves  *)
(* behind, before anything else runs; hist[1] is the machine the           *)
(* instruction ran in.                                                     *)

Executed == status = "running" /\ loc = "render" /\ hist # <<>>

\* C1: call/return round trip.  Every frame of the call stack is the address
\* after the call that pushed it, in the order of the calls; a call fetched at
\* a goes to nnn with one more frame; a return, executed at the depth a call
\* left, pops one frame and continues at that call's address + 2 (so nested
\* calls return last-in first-out).
CallReturnRoundTrip ==
    /\ Len(stack) = Len(callsites)
    /\ \A i \in 1..Len(stack) : stack[i] = callsites[i] + 2
    /\ (Executed /\ IsCall(hist[1].raw)) =>
           /\ program_counter = hist[1].raw % 4096
           /\ stack = Append(hist[1].stack, hist[1].at + 2)
    /\ (Executed /\ IsReturn(hist[1].raw)) =>
           /\ program_counter =
                  hist[1].callsites[Len(hist[1].callsites)] + 2
           /\ Len(stack) = Len(hist[1].stack) - 1
           /\ stack = SubSeq(hist[1].stack, 1, Len(stack))

\* C1 witness: the return of a nested call (made at 0x208 from inside the
\* subroutine called at 0x200) has continued at 0x20A with the outer frame left.
NestedReturnDone ==
    /\ Executed
    /\ IsReturn(hist[1].raw)
    /\ hist[1].callsites = <<512, 520>>
    /\ program_counter = 522
    /\ stack = <<514>>

\* C2 (as claimed): the call stack never holds more than 16 return addresses,
\* and a call executed with 16 frames on the stack ends the run with
\* StackOverflow.
StackBoundedAt16 ==
    /\ Len(stack) <= 16
    /\ (hist # <<>> /\ IsCall(hist[1].raw) /\ Len(hist[1].stack) >= 16) =>
           status = "StackOverflow"

\* C3: a return executed on an empty call stack ends the run with the stack
\* underflow panic; the program counter keeps the value the fetch gave it
\* (nothing popped replaces it), the rest of the machine is as before, and no
\* instruction runs afterwards (the faulting return stays the last one).
ReturnOnEmptyStackIsFatal ==
    /\ (hist # <<>> /\ IsReturn(hist[1].raw) /\ hist[1].stack = <<>>) =>
           /\ status = "StackUnderflow"
           /\ program_counter = hist[1].at + 2
           /\ stack = <<>>
           /\ registers = hist[1].registers
           /\ index_register = hist[1].index_register
           /\ memory = hist[1].memory
           /\ buffer = hist[1].buffer
    /\ status = "StackUnderflow" =>
           (hist # <<>> /\ IsReturn(hist[1].raw) /\ hist[1].stack = <<>>)

\* C3 witness: the run has ended in the underflow, on a return reached after
\* earlier calls had returned.
UnderflowReached ==
    /\ status = "StackUnderflow"
    /\ Len(hist) = 2
    /\ IsReturn(hist[1].raw)
    /\ IsReturn(hist[2].raw)
    /\ hist[1].stack = <<>>

\* the key instructions, by their words
IsKeyDown(raw)    == raw \div 4096 = 14 /\ raw % 256 = 158
IsKeyNotDown(raw) == raw \div 4096 = 14 /\ raw % 256 = 161
IsWaitForKey(raw) == raw \div 4096 = 15 /\ raw % 256 = 10
OperandX(raw)     == (raw \div 256) % 16

\* C6 (as claimed): Ex9E ends at its address + 4 exactly when the key named by
\* the low nibble of V[x] is held, ExA1 exactly when that key is not held, in
\* every state of the keyboard; otherwise they end at their address + 2.
KeySkipsFollowHeldKeys ==
    Executed =>
        LET raw == hist[1].raw
            key == hist[1].registers[OperandX(raw)] % 16
            isHeld == key \in hist[1].held
        IN  /\ IsKeyDown(raw) =>
                program_counter = hist[1].at + (IF isHeld THEN 4 ELSE 2)
            /\ IsKeyNotDown(raw) =>
                program_counter = hist[1].at + (IF isHeld THEN 2 ELSE 4)

\* C7: wait-for-key fetched at a.  A cycle that finds no key latched (as
\* always when no key is held) ends with the program counter back at a, where
\* the same word is fetched again, and with registers, index register, stack,
\* timers, memory and display as they were; a cycle that finds key k latched
\* (a key that is held) ends with V[x] = k, the other registers as they were,
\* and the program counter at a + 2, past the instruction.
WaitForKeyBlocksUntilKey ==
    (Executed /\ IsWaitForKey(hist[1].raw)) =>
        LET before == hist[1]
            x == OperandX(before.raw)
        IN  /\ before.held = {} => before.pressed = {}
            /\ before.pressed = {} =>
                   /\ program_counter = before.at
                   /\ Fetch(Machine) = before.raw
                   /\ registers = before.registers
                   /\ index_register = before.index_register
                   /\ stack = before.stack
                   /\ delay_timer = before.delay_timer
                   /\ sound_timer = before.sound_timer
                   /\ memory = before.memory
                   /\ buffer = before.buffer
                   /\ draw = before.draw
            /\ \A k \in before.pressed :
                   /\ k \in before.held
                   /\ registers = [before.registers EXCEPT ![x] = k]
                   /\ program_counter = before.at + 2
                   /\ index_register = before.index_register
                   /\ stack = before.stack
                   /\ memory = before.memory
                   /\ buffer = before.buffer

\* C7 witness: the wait ran at least twice at the same address, and the last
\* run found key 1 and completed.
WaitCompletedAfterWaiting ==
    /\ Executed
    /\ Len(hist) = 2
    /\ IsWaitForKey(hist[1].raw)
    /\ IsWaitForKey(hist[2].raw)
    /\ hist[2].at = hist[1].at
    /\ hist[1].pressed = {1}
    /\ registers[OperandX(hist[1].raw)] = 1
    /\ program_counter = hist[1].at + 2

IsAlu(raw) == raw \div 4096 = 8
OperandY(raw) == (raw \div 16) % 16
OperandN(raw) == raw % 16

\* C4: the flag-setting register instructions.  With vx, vy the values of
\* V[x], V[y] before the instruction: VF ends as the documented flag (8xy4: 1
\* iff vx + vy > 255; 8xy5: 0 iff vx < vy; 8xy7: 0 iff vy < vx; 8xy6: bit 0 of
\* vx; 8xyE: bit 7 of vx), also when x or y is 0xF; when x is not 0xF, V[x]
\* ends as the result modulo 256; with x = 0xF the flag is what VF holds; no
\* other register changes.
AluFlagsAsDocumented ==
    (Executed /\ IsAlu(hist[1].raw) /\ OperandN(hist[1].raw) \in FlagOperations) =>
        LET x  == OperandX(hist[1].raw)
            n  == OperandN(hist[1].raw)
            vx == hist[1].registers[x]
            vy == hist[1].registers[OperandY(hist[1].raw)]
            flag == CASE n = 4  -> IF vx + vy > 255 THEN 1 ELSE 0
                      [] n = 5  -> IF vx < vy THEN 0 ELSE 1
                      [] n = 7  -> IF vy < vx THEN 0 ELSE 1
                      [] n = 6  -> vx % 2
                      [] n = 14 -> vx \div 128
            result == CASE n = 4  -> (vx + vy) % 256
                        [] n = 5  -> (vx - vy) % 256
                        [] n = 7  -> (vy - vx) % 256
                        [] n = 6  -> vx \div 2
                        [] n = 14 -> (2 * vx) % 256
        IN  /\ registers[15] = flag
            /\ x # 15 => registers[x] = result
            /\ \A i \in 0..14 : i # x => registers[i] = hist[1].registers[i]
            /\ program_counter = hist[1].at + 2

\* C4 witness: 8FF4 has run with VF = 255: the sum 510 wraps to 254, the carry
\* is 1, and VF holds the carry.
AluFlagWinsOnVF ==
    /\ Executed
    /\ hist[1].raw = Op(8, 15, 15, 4)
    /\ hist[1].registers[15] = 255
    /\ registers[15] = 1

IsAddToIndex(raw) == raw \div 4096 = 15 /\ raw % 256 = 30

\* C5 (as claimed): after Fx1E the index register is (I + V[x]) mod 4096, and
\* VF is 1 whenever I + V[x] exceeds 0x0FFF.
AddToIndexMasksTo12Bits ==
    (Executed /\ IsAddToIndex(hist[1].raw)) =>
        LET sum == hist[1].index_register
                       + hist[1].registers[OperandX(hist[1].raw)]
        IN  /\ index_register = sum % 4096
            /\ sum > 4095 => registers[15] = 1

IsDraw(raw) == raw \div 4096 = 13

\* the state an instruction cycle leaves behind, a panic included
Ran ==
    /\ hist # <<>>
    /\ \/ status = "running" /\ loc = "render"
       \/ status \notin {"running", "quit"}

\* what a draw is given, read from the machine it runs in: the start column
\* and row, and the n sprite bytes at I
StartColumn(snap) == snap.registers[OperandX(snap.raw)] % 64
StartRow(snap)    == snap.registers[OperandY(snap.raw)] % 32
SpriteBytes(snap) ==
    [k \in 1..OperandN(snap.raw) |->
        MemRead(snap.memory, snap.index_register + k - 1)]

\* the pixels whose value differs between two buffers
Changed(before, after) == (before \ after) \cup (after \ before)

\* C8: two draws in a row with the same sprite bytes at the same start column
\* and row leave every pixel as it was before the first of them.
DrawTwiceRestores ==
    ( /\ Executed
      /\ Len(hist) = 2
      /\ IsDraw(hist[1].raw)
      /\ IsDraw(hist[2].raw)
      /\ StartColumn(hist[1]) = StartColumn(hist[2])
      /\ StartRow(hist[1]) = StartRow(hist[2])
      /\ SpriteBytes(hist[1]) = SpriteBytes(hist[2]) )
    => buffer = hist[2].buffer

\* C8 witness: the second of two such draws has run over a display that was
\* not empty before the first, and both draws changed pixels.
DrawTwiceDone ==
    /\ Executed
    /\ Len(hist) = 2
    /\ IsDraw(hist[1].raw)
    /\ IsDraw(hist[2].raw)
    /\ StartColumn(hist[1]) = StartColumn(hist[2])
    /\ StartRow(hist[1]) = StartRow(hist[2])
    /\ SpriteBytes(hist[1]) = SpriteBytes(hist[2])
    /\ hist[2].buffer # {}
    /\ hist[1].buffer # hist[2].buffer
    /\ buffer = hist[2].buffer

\* C9: after a draw, VF is 1 if some pixel that was set before the draw is
\* clear after it and 0 otherwise, whatever VF held before; and the changed
\* flag is set if any pixel changed.
DrawCollisionFlag ==
    (Executed /\ IsDraw(hist[1].raw)) =>
        /\ registers[15] = (IF hist[1].buffer \ buffer # {} THEN 1 ELSE 0)
        /\ Changed(hist[1].buffer, buffer) # {} => draw

\* C9 witness: a draw that ran with VF = 9 turned pixels on, none off, and
\* left VF = 0 and the changed flag set.
DrawWithoutCollisionClearsVF ==
    /\ Executed
    /\ IsDraw(hist[1].raw)
    /\ hist[1].registers[15] = 9
    /\ hist[1].buffer # {}
    /\ buffer \ hist[1].buffer # {}
    /\ hist[1].buffer \ buffer = {}
    /\ registers[15] = 0
    /\ draw

\* C10: a draw of height n starting at column sx = V[x] mod 64 and row
\* sy = V[y] mod 32 changes only pixels in columns sx..min(sx+7, 63) and rows
\* sy..min(sy+n-1, 31), never indexes the buffer outside the 64x32 grid, and
\* leaves every lit pixel inside the grid.
DrawClipsAtEdges ==
    (Ran /\ IsDraw(hist[1].raw)) =>
        LET sx == StartColumn(hist[1])
            sy == StartRow(hist[1])
            n  == OperandN(hist[1].raw)
        IN  /\ status # "IndexOutOfBounds"
            /\ buffer \subseteq (0..(DisplayHeight - 1)) \X (0..(DisplayWidth - 1))
            /\ \A p \in Changed(hist[1].buffer, buffer) :
                   /\ p[1] >= sy /\ p[1] <= sy + n - 1 /\ p[1] <= 31
                   /\ p[2] >= sx /\ p[2] <= sx + 7 /\ p[2] <= 63

\* C10 witness: a solid 15-row sprite drawn at column 60, row 30 (register
\* values 124 and 62) changed exactly columns 60..63 of rows 30..31.
DrawClippedAtCorner ==
    /\ Executed
    /\ IsDraw(hist[1].raw)
    /\ OperandN(hist[1].raw) = 15
    /\ hist[1].registers[OperandX(hist[1].raw)] = 124
    /\ hist[1].registers[OperandY(hist[1].raw)] = 62
    /\ Changed(hist[1].buffer, buffer) = (30..31) \X (60..63)

----------------------------------------------------------------------------
(* The program counter                                                     *)

\* C11 (as claimed): the program counter is even in every reachable state of
\* every loaded program.
ProgramCounterEven == program_counter % 2 = 0

----------------------------------------------------------------------------
(* The font                                                                *)

IsFontCharacter(raw) == raw \div 4096 = 15 /\ raw % 256 = 41

\* C12 (as claimed): after Fx29 the index register is the address of the
\* first byte of the 5-byte glyph of digit d = V[x] AND 0x0F, the glyphs being
\* stored contiguously from the font offset: FONT_OFFSET + 5 * d.
FontCharacterAddressesGlyph ==
    (Executed /\ IsFontCharacter(hist[1].raw)) =>
        index_register
            = FONT_OFFSET + 5 * (hist[1].registers[OperandX(hist[1].raw)] % 16)

----------------------------------------------------------------------------
(* Words of no documented shape                                            *)

\* the shapes the instruction set documents
IsDocumented(raw) ==
    LET first  == raw \div 4096
        n      == raw % 16
        nn     == raw % 256
    IN  CASE first = 0  -> raw \in {224, 238}
          [] first = 8  -> n \in (0..7) \cup {14}
          [] first = 14 -> nn \in {158, 161}
          [] first = 15 -> nn \in {7, 10, 21, 24, 30, 41, 51, 85, 101}
          [] OTHER      -> TRUE

\* C13 (as claimed): a fetched word of no documented shape ends the run with
\* InvalidOpcode in every machine state, a key latched or not, and never
\* executes as a no-op.
UndocumentedWordIsFatal ==
    (hist # <<>> /\ hist[1].raw >= 0 /\ ~IsDocumented(hist[1].raw)) =>
        status = "InvalidOpcode"

----------------------------------------------------------------------------
(* Block store and load                                                    *)

IsStore(raw) == raw \div 4096 = 15 /\ raw % 256 = 85
IsLoad(raw)  == raw \div 4096 = 15 /\ raw % 256 = 101

Addresses == 0..(MemorySize - 1)

\* C14: Fx55 and Fx65 cover the inclusive range 0..x.  A store leaves
\* memory[I+i] = V[i] for i in 0..x and all other memory, every register and I
\* as they were; a load leaves V[i] = memory[I+i] for i in 0..x and V[x+1]..
\* V[F], memory and I as they were; a load right after a store with the same
\* x and I leaves V0..Vx as they were before the store.
BlockTransferInclusive ==
    Executed =>
        LET before == hist[1]
            x      == OperandX(before.raw)
            base   == before.index_register
        IN  /\ IsStore(before.raw) =>
                /\ \A a \in Addresses :
                       MemRead(memory, a)
                           = IF a >= base /\ a <= base + x
                             THEN before.registers[a - base]
                             ELSE MemRead(before.memory, a)
                /\ registers = before.registers
                /\ index_register = base
            /\ IsLoad(before.raw) =>
                /\ \A i \in 0..15 :
                       registers[i]
                           = IF i <= x THEN MemRead(before.memory, base + i)
                                       ELSE before.registers[i]
                /\ memory = before.memory
                /\ index_register = base
                /\ (/\ Len(hist) = 2
                    /\ IsStore(hist[2].raw)
                    /\ OperandX(hist[2].raw) = x
                    /\ hist[2].index_register = base)
                   => \A i \in 0..x : registers[i] = hist[2].registers[i]

\* a store of all sixteen registers, then a load of all sixteen
BlockRoundTripDone ==
    /\ Executed
    /\ Len(hist) = 2
    /\ IsStore(hist[2].raw)
    /\ IsLoad(hist[1].raw)
    /\ OperandX(hist[1].raw) = 15
    /\ hist[2].registers[15] = 255
    /\ MemRead(memory, MemorySize - 1) = 255

----------------------------------------------------------------------------
(* Timers                                                                  *)

TimerDecremented(t) == IF t > 0 THEN t - 1 ELSE 0

\* C15: the timers never go below 0.  A step of the loop that is not an
\* instruction either leaves both timers alone or is a tick, which takes each
\* timer t > 0 to t - 1 and leaves a timer at 0, each independently of the
\* other: no wrap to 255.
TimersCountDownToZero ==
    [][\/ loc' = "render"
       \/ delay_timer' = delay_timer /\ sound_timer' = sound_timer
       \/ /\ delay_timer' = TimerDecremented(delay_timer)
          /\ sound_timer' = TimerDecremented(sound_timer)
          /\ delay_timer' \in 0..255
          /\ sound_timer' \in 0..255]_vars

\* the delay timer, set to 2, has reached 0 and stayed there over a tick that
\* took the sound timer from 1 to 0
TimerStayedAtZero ==
    /\ hist # <<>>
    /\ hist[1].raw = OpNNN(1, 520)
    /\ hist[1].delay_timer = 0
    /\ hist[1].sound_timer = 1
    /\ delay_timer = 0
    /\ sound_timer = 0

----------------------------------------------------------------------------
(* Decimal conversion                                                      *)

IsDecimal(raw) == raw \div 4096 = 15 /\ raw % 256 = 51

\* C16: after Fx33 with v = V[x], memory[I] = v div 100, memory[I+1] =
\* (v div 10) mod 10, memory[I+2] = v mod 10; V[x] and every other register,
\* I, and all other memory are as before.
DecimalDigitsStored ==
    (Executed /\ IsDecimal(hist[1].raw)) =>
        LET before == hist[1]
            v      == before.registers[OperandX(before.raw)]
            base   == before.index_register
        IN  /\ \A a \in Addresses :
                   MemRead(memory, a)
                       = CASE a = base     -> v \div 100
                           [] a = base + 1 -> (v \div 10) % 10
                           [] a = base + 2 -> v % 10
                           [] OTHER        -> MemRead(before.memory, a)
            /\ registers = before.registers
            /\ index_register = base

\* 234 converted into the last three bytes of memory
DecimalOf234Stored ==
    /\ Executed
    /\ IsDecimal(hist[1].raw)
    /\ hist[1].registers[OperandX(hist[1].raw)] = 234
    /\ MemRead(memory, MemorySize - 3) = 2
    /\ MemRead(memory, MemorySize - 2) = 3
    /\ MemRead(memory, MemorySize - 1) = 4

----------------------------------------------------------------------------
(* The decoder                                                             *)

\* the documented shapes: four nibbles, -1 for an operand nibble, and the tag
Shape(a, b, c, d, tag) == [nibbles |-> <<a, b, c, d>>, tag |-> tag]

Shapes ==
    {Shape(0, 0, 14, 0, "Clear"), Shape(0, 0, 14, 14, "PopStack"),
     Shape(1, -1, -1, -1, "SetProgramCounter"),
     Shape(2, -1, -1, -1, "PushStackSetProgramCounter"),
     Shape(3, -1, -1, -1, "SkipIfEqualImmediate"),
     Shape(4, -1, -1, -1, "SkipIfNotEqualImmediate"),
     Shape(5, -1, -1, -1, "SkipIfEqualRegister"),
     Shape(6, -1, -1, -1, "SetRegister"),
     Shape(7, -1, -1, -1, "AddToRegister"),
     Shape(8, -1, -1, 0, "CopyFromRegisterToRegister"),
     Shape(8, -1, -1, 1, "LogicalOr"),
     Shape(8, -1, -1, 2, "LogicalAnd"),
     Shape(8, -1, -1, 3, "LogicalXor"),
     Shape(8, -1, -1, 4, "Addition"),
     Shape(8, -1, -1, 5, "Subtraction"),
     Shape(8, -1, -1, 6, "RightShift"),
     Shape(8, -1, -1, 7, "FlippedSubtraction"),
     Shape(8, -1, -1, 14, "LeftShift"),
     Shape(9, -1, -1, -1, "SkipIfNotEqualRegister"),
     Shape(10, -1, -1, -1, "SetIndexRegister"),
     Shape(11, -1, -1, -1, "SetProgramCounterOffset"),
     Shape(12, -1, -1, -1, "RandomNumber"),
     Shape(13, -1, -1, -1, "Draw"),
     Shape(14, -1, 9, 14, "KeyDown"),
     Shape(14, -1, 10, 1, "KeyNotDown"),
     Shape(15, -1, 0, 7, "CopyDelayTimer"),
     Shape(15, -1, 0, 10, "WaitForKeyPress"),
     Shape(15, -1, 1, 5, "SetDelayTimer"),
     Shape(15, -1, 1, 8, "SetSoundTimer"),
     Shape(15, -1, 1, 14, "AddToIndexRegister"),
     Shape(15, -1, 2, 9, "SetIndexRegisterToFontCharacter"),
     Shape(15, -1, 3, 3, "ConvertToDecimal"),
     Shape(15, -1, 5, 5, "WriteToMemory"),
     Shape(15, -1, 6, 5, "ReadFromMemory")}

\* bits low..low+3 of a word, from its binary digits
Nibble(raw, low) ==
    Bit(raw, low) + 2 * Bit(raw, low + 1) + 4 * Bit(raw, low + 2)
        + 8 * Bit(raw, low + 3)

\* the shapes a word matches
Matching(raw) ==
    {shape \in Shapes :
        \A k \in 1..4 :
            shape.nibbles[k] \in {-1, Nibble(raw, 16 - 4 * k)}}

\* C17: the outcome of decoding is a function of the word.  A word matches at
\* most one documented shape; if it matches one, the decoder yields exactly
\* that shape's tag with x = bits 8-11, y = bits 4-7, n = bits 0-3, nn = bits
\* 0-7, nnn = bits 0-11; if it matches none, decoding fails with
\* InvalidOpcode.
DecodeTotalDeterministic ==
    parsed # <<>> =>
        LET raw     == parsed[1]
            matches == Matching(raw)
        IN  /\ Cardinality(matches) <= 1
            /\ IF matches = {}
               THEN parsed[2] = {} /\ status = "InvalidOpcode"
               ELSE /\ status = "running"
                    /\ parsed[2] =
                          {[raw_instruction |-> raw,
                            instruction     |-> shape.tag,
                            x               |-> Nibble(raw, 8),
                            y               |-> Nibble(raw, 4),
                            n               |-> Nibble(raw, 0),
                            nn              |-> Nibble(raw, 0)
                                                    + 16 * Nibble(raw, 4),
                            nnn             |-> Nibble(raw, 0)
                                                    + 16 * Nibble(raw, 4)
                                                    + 256 * Nibble(raw, 8)] :
                              shape \in matches}

\* 0xFA65 decoded as a block load with x = 10
BlockLoadDecoded ==
    /\ parsed # <<>>
    /\ parsed[1] = 64101
    /\ \E p \in parsed[2] : p.instruction = "ReadFromMemory" /\ p.x = 10

----------------------------------------------------------------------------
(* The input latch                                                         *)

\* C18 (as claimed): after any sequence of key events the latch is the latest
\* pressed key as long as that key is held, and none otherwise: none at the
\* start, none once that key is released, never an earlier key still held.
LatchIsLatestHeldKey ==
    status = "running" =>
        pressed = IF latest \subseteq held THEN latest ELSE {}

----------------------------------------------------------------------------
(* Faults                                                                  *)

Faulted == hist # <<>> /\ hist[1].raw >= 0 /\ status \notin {"running", "quit"}

\* C19: when an instruction other than a block store or load ends in a fatal
\* condition, the registers (VF included), the index register, memory, the
\* call stack and the display buffer hold the values they had before it.
FaultLeavesStateUntouched ==
    (Faulted /\ ~IsStore(hist[1].raw) /\ ~IsLoad(hist[1].raw)) =>
        /\ registers = hist[1].registers
        /\ index_register = hist[1].index_register
        /\ memory = hist[1].memory
        /\ stack = hist[1].stack
        /\ buffer = hist[1].buffer

\* a draw of 7 rows from address 4090 has failed with VF = 9 and a glyph on
\* the display
DrawFaulted ==
    /\ Faulted
    /\ IsDraw(hist[1].raw)
    /\ status = "MemoryFault"
    /\ index_register = MemorySize - 6
    /\ hist[1].raw % 16 = 7
    /\ hist[1].registers[15] = 9
    /\ buffer # {}

----------------------------------------------------------------------------
(* Waiting for a key and the other cadences                                *)

\* the loop is about to execute Fx0A with no key latched
Waiting ==
    /\ status = "running"
    /\ loc = "loop"
    /\ ~FetchFaults(Machine)
    /\ IsWaitForKey(Fetch(Machine))
    /\ pressed = {}

\* the wait of WaitWithTimersProgram is at 0x206; past it the program is at
\* its final jump
PastWait == program_counter = ProgramStart + 8

----------------------------------------------------------------------------
(* The changed flag of the display                                         *)

\* the step is an instruction cycle that fetches raw
Executes(raw) ==
    /\ status = "running"
    /\ loc = "loop"
    /\ hist' # hist
    /\ ~FetchFaults(Machine)
    /\ Fetch(Machine) = raw

IsClear(raw) == raw = 224

\* C21: the changed flag.  It becomes true only in an instruction cycle that
\* is a clear, or a draw that toggles at least one pixel, and every cycle
\* that changes the pixel grid leaves it true; the render step leaves the
\* grid alone and, when the flag is set, presents the grid and resets the
\* flag; so at the start of every instruction cycle the flag is false and
\* what was presented is the grid.
DisplayFlagProtocol ==
    /\ [](status = "running" /\ loc = "loop" => ~draw /\ canvas = buffer)
    /\ [][(~draw /\ draw') =>
              \E raw \in {Fetch(Machine)} :
                 /\ Executes(raw)
                 /\ IsClear(raw) \/ (IsDraw(raw) /\ buffer' # buffer)]_vars
    /\ [][buffer' # buffer => draw' /\ loc = "loop"]_vars
    /\ [][loc = "render" =>
              /\ buffer' = buffer
              /\ loc' = "loop"
              /\ ~draw'
              /\ draw => canvas' = buffer]_vars

\* a clear of a display that showed a glyph has been rendered: the next cycle
\* starts with the flag reset and the empty grid presented
ClearRendered ==
    /\ status = "running"
    /\ loc = "loop"
    /\ hist # <<>>
    /\ IsClear(hist[1].raw)
    /\ hist[1].buffer # {}
    /\ canvas = {}
    /\ ~draw

----------------------------------------------------------------------------
(* The index register as a base address                                    *)

\* the instructions that form addresses I + i
UsesIndex(raw) == IsDraw(raw) \/ IsDecimal(raw) \/ IsStore(raw) \/ IsLoad(raw)

\* the number of bytes at I the instruction asks for
Extent(raw) ==
    CASE IsDraw(raw)    -> OperandN(raw)
      [] IsDecimal(raw) -> 3
      [] OTHER          -> OperandX(raw) + 1

\* C22: the index register is at most 0x0FFF in every reachable state.  So
\* the addresses I + i of a draw, a decimal conversion and a block store or
\* load are formed without wraparound: the instruction ends in MemoryFault
\* exactly when one of them is past the end of memory, and then no byte below
\* I has been written and a load has loaded no register for such an address.
IndexWithinAddressSpace ==
    /\ index_register \in 0..(MemorySize - 1)
    /\ (Ran /\ hist[1].raw >= 0 /\ UsesIndex(hist[1].raw)) =>
           LET before == hist[1]
               base   == before.index_register
           IN  /\ status = "MemoryFault"
                      <=> base + Extent(before.raw) > MemorySize
               /\ \A a \in 0..(base - 1) :
                      MemRead(memory, a) = MemRead(before.memory, a)
               /\ IsLoad(before.raw) =>
                      \A i \in 0..15 :
                         base + i >= MemorySize =>
                             registers[i] = before.registers[i]

\* a store of V0..V2 at I = 0xFFF has written V0 = 255 to the last byte of
\* memory and has then failed
StoreFaultedAtEnd ==
    /\ status = "MemoryFault"
    /\ hist # <<>>
    /\ IsStore(hist[1].raw)
    /\ index_register = MemorySize - 1
    /\ MemRead(memory, MemorySize - 1) = 255
    /\ MemRead(memory, 0) = 0

====
